---- MODULE Spec2Model ----
(***************************************************************************)
(* Model of the DRR orchestrator of src/src/drr.py: the constructor        *)
(* DRR.__init__, DRR.initialize_parameters and DRR.forward.                *)
(*                                                                         *)
(* Python's None is the empty tuple; a scalar argument x is the 1-tuple    *)
(* <<x>>; a tensor is the tuple of its float32 elements and a stored        *)
(* nn.Parameter is the pair of its tensor and its requires_grad flag.       *)
(***************************************************************************)
EXTENDS Integers, Sequences, FiniteSets, TLC

VARIABLES ctor, detector, siddon, sdr, rotations, translations, last, lastSet,
          threads

vars == <<ctor, detector, siddon, sdr, rotations, translations, last, lastSet,
          threads>>

None == <<>>

(***************************************************************************)
(* Bounds of the model.                                                    *)
(***************************************************************************)
\* number of distinct complete parameter 7-tuples the callers draw from
NumPoses == 3
\* detector geometry arguments are drawn from -1..MaxGeom
MaxGeom == 2
\* number of threads calling methods of one orchestrator concurrently
NumThreads == 2

\* torch.float32 (drr.py:75) has a 24-bit significand
F32Bits == 24

(***************************************************************************)
(* torch.tensor(x, dtype=torch.float32) on a non-negative integer below    *)
(* 2^(F32Bits+1): exact up to 2^F32Bits, above it rounded to the nearest   *)
(* even multiple of two (round-half-to-even on the significand).           *)
(***************************************************************************)
F32(x) ==
  IF x <= 2^F32Bits THEN x
  ELSE IF x % 2 = 0 THEN x
  ELSE IF ((x - 1) \div 2) % 2 = 0 THEN x - 1
  ELSE x + 1

(***************************************************************************)
(* The parameter tuples callers pass: tuple 0 is all zeros, tuple 1 is the  *)
(* identity pose of the specification's scenario (sdr > 0, all angles and  *)
(* offsets 0), tuple 2 has seven distinct small                            *)
(* values, tuples from 3 on have values above 2^F32Bits, which float32     *)
(* does not all represent.                                                 *)
(***************************************************************************)
PoseVal(i) ==
  [j \in 1..7 |->
     IF i = 0 THEN 0
     ELSE IF i = 1 THEN (IF j = 1 THEN 1 ELSE 0)
     ELSE IF i = 2 THEN j + 1
     ELSE 2^F32Bits + (i - 2) * j]

Masks == SUBSET (1..7)

\* the seven arguments [sdr, theta, phi, gamma, bx, by, bz] of a call that
\* supplies the positions in m with the values of tuple i, and None elsewhere
Args(i, m) == [j \in 1..7 |-> IF j \in m THEN <<PoseVal(i)[j]>> ELSE None]

NoArgs == [j \in 1..7 |-> None]

\* the calls of the runs: every complete tuple, and every proper subset of the
\* seven arguments (the empty one included) with the values of tuple 2
CallArgs ==
  {Args(i, 1..7) : i \in 0..NumPoses} \cup {Args(2, m) : m \in Masks \ {1..7}}

Complete(a) == \A j \in 1..7 : a[j] # None

\* torch.tensor(list, dtype=float32): raises when an element is None
tensor_raises(a, js) == \E j \in js : a[j] = None

\* the stored tensor built from positions lo..lo+n-1 of the arguments
tensor(a, lo, n) == [k \in 1..n |-> F32(a[lo + k - 1][1])]

\* nn.Parameter(data, requires_grad): the tensor and its trainable flag
Parameter(data, requires_grad) == <<data, requires_grad>>

\* line 76 without requires_grad=False: nn.Parameter's default is True
sdr_parameter_trainable(a) == Parameter(tensor(a, 1, 1), TRUE)

\* lines 76-78: nn.Parameter(torch.tensor(sdr, ...), requires_grad=False)
sdr_parameter(a) == Parameter(tensor(a, 1, 1), FALSE)

\* line 79: nn.Parameter(torch.tensor([theta, phi, gamma], ...))
rotations_parameter(a) == Parameter(tensor(a, 2, 3), TRUE)

\* line 80: nn.Parameter(torch.tensor([bx, by, bz], ...))
translations_parameter(a) == Parameter(tensor(a, 5, 3), TRUE)

\* the parameters of the module as one record
Pose(s, r, t) == [sdr |-> s, rotations |-> r, translations |-> t]

Self == Pose(sdr, rotations, translations)

\* initialize_parameters with line 80 run only while translations is still None
initialize_parameters_keep(self, a) ==
  IF tensor_raises(a, {1})
  THEN [pose |-> self, raised |-> TRUE]
  ELSE LET s1 == [self EXCEPT !.sdr = sdr_parameter(a)] IN
    IF tensor_raises(a, 2..4)
    THEN [pose |-> s1, raised |-> TRUE]
    ELSE LET s2 == [s1 EXCEPT !.rotations = rotations_parameter(a)] IN
      IF tensor_raises(a, 5..7)
      THEN [pose |-> s2, raised |-> TRUE]
      ELSE [pose |-> IF s2.translations = None
                     THEN [s2 EXCEPT !.translations = translations_parameter(a)]
                     ELSE s2,
            raised |-> FALSE]

(***************************************************************************)
(* DRR.initialize_parameters (drr.py:75-80): three assignments in order,   *)
(* each building its tensor first; a None among the values of a tensor     *)
(* raises at that statement and leaves the earlier assignments in place.   *)
(***************************************************************************)
initialize_parameters(self, a) ==
  IF tensor_raises(a, {1})
  THEN [pose |-> self, raised |-> TRUE]
  ELSE LET s1 == [self EXCEPT !.sdr = sdr_parameter(a)] IN
    IF tensor_raises(a, 2..4)
    THEN [pose |-> s1, raised |-> TRUE]
    ELSE LET s2 == [s1 EXCEPT !.rotations = rotations_parameter(a)] IN
      IF tensor_raises(a, 5..7)
      THEN [pose |-> s2, raised |-> TRUE]
      ELSE [pose |-> [s2 EXCEPT !.translations = translations_parameter(a)],
            raised |-> FALSE]

\* what forward hands to self.detector.make_xrays (drr.py:54)
XrayArgs(p) == <<p.sdr, p.rotations, p.translations>>

NoCall == <<"no call">>

\* forward with line 54 evaluated before line 53: the rays of the pose stored
\* before the call
forward_stale(self, a) ==
  LET ip == IF \E j \in 1..7 : a[j] # None
            THEN initialize_parameters(self, a)
            ELSE [pose |-> self, raised |-> FALSE]
  IN IF ip.raised
     THEN [pose |-> ip.pose, outcome |-> "TensorError", xrays |-> NoCall]
     ELSE [pose |-> ip.pose,
           outcome |-> IF \A k \in 1..3 : XrayArgs(self)[k] # None
                       THEN "image" ELSE "NonePose",
           xrays |-> XrayArgs(self)]

\* forward with the rays kept from the first render: make_xrays is called with
\* the pose stored before the call whenever there was a complete one
forward_cached(self, a) ==
  LET ip == IF \E j \in 1..7 : a[j] # None
            THEN initialize_parameters(self, a)
            ELSE [pose |-> self, raised |-> FALSE]
      used == IF \A k \in 1..3 : XrayArgs(self)[k] # None
              THEN self ELSE ip.pose
  IN IF ip.raised
     THEN [pose |-> ip.pose, outcome |-> "TensorError", xrays |-> NoCall]
     ELSE [pose |-> ip.pose,
           outcome |-> IF \A k \in 1..3 : XrayArgs(used)[k] # None
                       THEN "image" ELSE "NonePose",
           xrays |-> XrayArgs(used)]

\* forward with any(arg for arg in ...) on line 52: truthiness in place of
\* `is not None`, so that a zero counts as missing
forward_truthy(self, a) ==
  LET ip == IF \E j \in 1..7 : a[j] # None /\ a[j] # <<0>>
            THEN initialize_parameters(self, a)
            ELSE [pose |-> self, raised |-> FALSE]
  IN IF ip.raised
     THEN [pose |-> ip.pose, outcome |-> "TensorError", xrays |-> NoCall]
     ELSE [pose |-> ip.pose,
           outcome |-> IF \A k \in 1..3 : XrayArgs(ip.pose)[k] # None
                       THEN "image" ELSE "NonePose",
           xrays |-> XrayArgs(ip.pose)]

\* forward with all(...) in place of any(...) on line 52
forward_all(self, a) ==
  LET ip == IF \A j \in 1..7 : a[j] # None
            THEN initialize_parameters(self, a)
            ELSE [pose |-> self, raised |-> FALSE]
  IN IF ip.raised
     THEN [pose |-> ip.pose, outcome |-> "TensorError", xrays |-> NoCall]
     ELSE [pose |-> ip.pose,
           outcome |-> IF \A k \in 1..3 : XrayArgs(ip.pose)[k] # None
                       THEN "image" ELSE "NonePose",
           xrays |-> XrayArgs(ip.pose)]

(***************************************************************************)
(* DRR.forward (drr.py:52-56).  outcome is "TensorError" when              *)
(* initialize_parameters raised, "image" when make_xrays and raytrace were *)
(* called with a complete stored pose, and "NonePose" when forward called  *)
(* make_xrays with a parameter that is still None.                         *)
(***************************************************************************)
forward(self, a) ==
  LET ip == IF \E j \in 1..7 : a[j] # None
            THEN initialize_parameters(self, a)
            ELSE [pose |-> self, raised |-> FALSE]
  IN IF ip.raised
     THEN [pose |-> ip.pose, outcome |-> "TensorError", xrays |-> NoCall]
     ELSE [pose |-> ip.pose,
           outcome |-> IF \A k \in 1..3 : XrayArgs(ip.pose)[k] # None
                       THEN "image" ELSE "NonePose",
           xrays |-> XrayArgs(ip.pose)]

(***************************************************************************)
(* DRR.__init__ (drr.py:35-37): the defaults of width and dely and the     *)
(* construction of the detector.  height and delx are numbers, width and   *)
(* dely are None or a 1-tuple.                                             *)
(***************************************************************************)
\* line 35 written the way line 36 is
init_width_height(height, width) == IF width = None THEN height ELSE height

init_width(height, width) == IF width = None THEN height ELSE width[1]

init_dely(delx, dely) == IF dely = None THEN delx ELSE delx

\* utils.camera.Detector is not part of the sources: its constructor is taken
\* from the specification (section 3: counts and pitches > 0; section 7:
\* ShapeMismatchError at construction).  None stands for the raised error.
Detector(height, width, delx, dely) ==
  IF height > 0 /\ width > 0 /\ delx > 0 /\ dely > 0
  THEN <<height, width, delx, dely>>
  ELSE None

\* projectors.siddon.Siddon is not part of the sources: the projector holds the
\* volume and its spacing (specification, section 3, VolumeGrid)
Siddon(volume, spacing) == <<volume, spacing>>

DRR_init(c) ==
  Detector(c.height, init_width(c.height, c.width), c.delx,
           init_dely(c.delx, c.dely))

GeomVals == (0 - 1)..MaxGeom

OptGeomVals == {None} \cup {<<v>> : v \in GeomVals}

\* the volumes of the runs, by name, and their spacings
Volumes == {"ones", "ct"}

Spacings == {<<1, 1, 1>>}

CtorArgs ==
  [volume : Volumes, spacing : Spacings, height : GeomVals, delx : GeomVals,
   width : OptGeomVals, dely : OptGeomVals]

\* the constructor call of the pose state machine's runs: DRR(volume, spacing, 2, 1)
PlainCtor ==
  [volume |-> "ones", spacing |-> <<1, 1, 1>>, height |-> 2, delx |-> 1,
   width |-> None, dely |-> None]

Threads == 1..NumThreads

\* a thread that has not called yet: no call, nothing read
Idle == [pc |-> "idle", call |-> "none", args |-> NoArgs,
         rd |-> <<None, None, None>>]

\* the state __init__ leaves: the three parameters registered as None (drr.py:41-43)
Constructed(c) ==
  /\ ctor = c
  /\ detector = DRR_init(c)
  /\ siddon = Siddon(c.volume, c.spacing)
  /\ sdr = None
  /\ rotations = None
  /\ translations = None
  /\ last = [op |-> "__init__", args |-> NoArgs, outcome |-> "none", xrays |-> NoCall]
  /\ lastSet = None
  /\ threads = [t \in Threads |-> Idle]

Init == Constructed(PlainCtor)

InitCtor == \E c \in CtorArgs : Constructed(c)

\* a method can be called only on an object whose constructor returned
Exists == detector # None

SetPose(p) ==
  /\ sdr' = p.sdr
  /\ rotations' = p.rotations
  /\ translations' = p.translations

\* lastSet: the arguments of the most recent call that supplied parameters and
\* did not raise in initialize_parameters
Forward(a) ==
  /\ Exists
  /\ LET r == forward(Self, a) IN
       /\ SetPose(r.pose)
       /\ last' = [op |-> "forward", args |-> a, outcome |-> r.outcome,
                   xrays |-> r.xrays]
       /\ lastSet' = IF a # NoArgs /\ r.outcome # "TensorError" THEN a ELSE lastSet
  /\ UNCHANGED <<ctor, detector, siddon, threads>>

\* initialize_parameters that also builds the detector again, from height and
\* delx alone
InitializeParameters_rebuild(a) ==
  /\ Exists
  /\ LET r == initialize_parameters(Self, a) IN
       /\ SetPose(r.pose)
       /\ last' = [op |-> "initialize_parameters", args |-> a,
                   outcome |-> IF r.raised THEN "TensorError" ELSE "ok",
                   xrays |-> NoCall]
       /\ lastSet' = IF r.raised THEN lastSet ELSE a
  /\ detector' = Detector(ctor.height, ctor.height, ctor.delx, ctor.delx)
  /\ UNCHANGED <<ctor, siddon, threads>>

InitializeParameters(a) ==
  /\ Exists
  /\ LET r == initialize_parameters(Self, a) IN
       /\ SetPose(r.pose)
       /\ last' = [op |-> "initialize_parameters", args |-> a,
                   outcome |-> IF r.raised THEN "TensorError" ELSE "ok",
                   xrays |-> NoCall]
       /\ lastSet' = IF r.raised THEN lastSet ELSE a
  /\ UNCHANGED <<ctor, detector, siddon, threads>>

Next ==
  \/ \E a \in CallArgs : Forward(a)
  \/ \E a \in CallArgs : InitializeParameters(a)

Spec == Init /\ [][Next]_vars

\* the calls made on the objects of the constructor runs: none, sdr alone, all seven
ProbeArgs == {Args(1, {}), Args(1, {1}), Args(1, 1..7)}

NextCtor ==
  \/ \E a \in ProbeArgs : Forward(a)
  \/ \E a \in ProbeArgs : InitializeParameters(a)

SpecCtor == InitCtor /\ [][NextCtor]_vars


(***************************************************************************)
(* Several threads on one orchestrator.  Nothing in drr.py takes a lock,   *)
(* so a thread can be descheduled between any two statements: each         *)
(* assignment of initialize_parameters (lines 76, 79, 80) and each         *)
(* attribute read of line 54 is a step of its own.  A thread makes one     *)
(* call: initialize_parameters(p) or forward(p) with a complete tuple p,   *)
(* or forward().                                                           *)
(***************************************************************************)
CompleteArgs == {Args(i, 1..7) : i \in 0..NumPoses}

\* the call begins; line 52 reads only the arguments
Call(t) ==
  /\ Exists
  /\ threads[t].pc = "idle"
  /\ \/ \E a \in CompleteArgs, c \in {"initialize_parameters", "forward"} :
          threads' = [threads EXCEPT ![t] = [@ EXCEPT !.pc = "l76", !.call = c,
                                                     !.args = a]]
     \/ threads' = [threads EXCEPT ![t] = [@ EXCEPT !.pc = "l54_sdr",
                                                   !.call = "forward"]]
  /\ UNCHANGED <<ctor, detector, siddon, sdr, rotations, translations, last, lastSet>>

\* line 76: self.sdr = nn.Parameter(torch.tensor(sdr, ...))
Line76(t) ==
  /\ threads[t].pc = "l76"
  /\ sdr' = sdr_parameter(threads[t].args)
  /\ threads' = [threads EXCEPT ![t].pc = "l79"]
  /\ UNCHANGED <<ctor, detector, siddon, rotations, translations, last, lastSet>>

\* line 79: self.rotations = nn.Parameter(torch.tensor([theta, phi, gamma], ...))
Line79(t) ==
  /\ threads[t].pc = "l79"
  /\ rotations' = rotations_parameter(threads[t].args)
  /\ threads' = [threads EXCEPT ![t].pc = "l80"]
  /\ UNCHANGED <<ctor, detector, siddon, sdr, translations, last, lastSet>>

\* line 80: self.translations = nn.Parameter(torch.tensor([bx, by, bz], ...))
Line80(t) ==
  /\ threads[t].pc = "l80"
  /\ translations' = translations_parameter(threads[t].args)
  /\ threads' = [threads EXCEPT ![t].pc =
                   IF threads[t].call = "forward" THEN "l54_sdr" ELSE "done"]
  /\ UNCHANGED <<ctor, detector, siddon, sdr, rotations, last, lastSet>>

\* line 54: the three arguments of make_xrays are read left to right
ReadSdr(t) ==
  /\ threads[t].pc = "l54_sdr"
  /\ threads' = [threads EXCEPT ![t] = [@ EXCEPT !.pc = "l54_rotations",
                                                 !.rd[1] = sdr]]
  /\ UNCHANGED <<ctor, detector, siddon, sdr, rotations, translations, last, lastSet>>

ReadRotations(t) ==
  /\ threads[t].pc = "l54_rotations"
  /\ threads' = [threads EXCEPT ![t] = [@ EXCEPT !.pc = "l54_translations",
                                                 !.rd[2] = rotations]]
  /\ UNCHANGED <<ctor, detector, siddon, sdr, rotations, translations, last, lastSet>>

\* the last read, and the call of make_xrays and raytrace with what was read
ReadTranslations(t) ==
  /\ threads[t].pc = "l54_translations"
  /\ threads' = [threads EXCEPT ![t] = [@ EXCEPT !.pc = "done",
                                                 !.rd[3] = translations]]
  /\ UNCHANGED <<ctor, detector, siddon, sdr, rotations, translations, last, lastSet>>

NextConc ==
  \E t \in Threads :
    \/ Call(t)
    \/ Line76(t)
    \/ Line79(t)
    \/ Line80(t)
    \/ ReadSdr(t)
    \/ ReadRotations(t)
    \/ ReadTranslations(t)

SpecConc == Init /\ [][NextConc]_vars

(***************************************************************************)
(* The states of section 4.4 and the pose a complete call gives.           *)
(***************************************************************************)
Uninitialized == sdr = None /\ rotations = None /\ translations = None

Ready == sdr # None /\ rotations # None /\ translations # None

Partial(a) == a # NoArgs /\ ~Complete(a)

\* the parameters lines 76-80 build from the complete arguments a
PoseOf(a) == Pose(sdr_parameter(a), rotations_parameter(a), translations_parameter(a))

(***************************************************************************)
(* Claims on the pose state machine (Spec).                                *)
(***************************************************************************)

\* C1: a parameterless forward on an orchestrator on which no pose was ever
\* set ends in a dedicated uninitialized-pose error raised by forward itself,
\* before ray generation is called.
C1_UninitializedRenderRaises ==
  (last.op = "forward" /\ last.args = NoArgs /\ Uninitialized /\ lastSet = None)
    => (last.outcome = "UninitializedPoseError" /\ last.xrays = NoCall)

\* C2: from every reachable state and for every complete tuple p, forward(p)
\* and initialize_parameters(p) followed by forward() leave the same stored
\* pose, the same outcome and the same arguments to make_xrays; and a
\* forward(p) that has run left what that sequence leaves.
C2_RenderParamsIsSetThenRender ==
  /\ \A i \in 0..NumPoses :
       LET p == Args(i, 1..7)
           direct == forward(Self, p)
           set == initialize_parameters(Self, p)
           then == forward(set.pose, NoArgs)
       IN /\ ~set.raised
          /\ direct.pose = then.pose
          /\ direct.outcome = then.outcome
          /\ direct.xrays = then.xrays
  /\ (last.op = "forward" /\ Complete(last.args)) =>
       LET then == forward(initialize_parameters(Self, last.args).pose, NoArgs)
       IN /\ Self = then.pose
          /\ last.outcome = then.outcome
          /\ last.xrays = then.xrays

C2_Witness ==
  /\ last.op = "forward"
  /\ last.args = Args(3, 1..7)
  /\ last.outcome = "image"
  /\ last.xrays = XrayArgs(PoseOf(Args(3, 1..7)))

\* C3: a parameterless forward in Ready renders with exactly the pose given by
\* the most recent successful initialize_parameters / forward(params), and that
\* pose is the stored one.
C3_RenderUsesLastSetPose ==
  (last.op = "forward" /\ last.args = NoArgs /\ Ready) =>
    /\ lastSet # None
    /\ Self = PoseOf(lastSet)
    /\ last.xrays = XrayArgs(PoseOf(lastSet))

\* the part of C3 that holds: a parameterless forward changes no parameter and
\* hands the stored ones to make_xrays
C3_ParameterlessRenderKeepsPose ==
  [][(last'.op = "forward" /\ last'.args = NoArgs) =>
       (Self' = Self /\ last'.xrays = XrayArgs(Self))]_vars

\* C4: initialize_parameters with a complete tuple p does not raise and leaves
\* the orchestrator Ready with sdr, rotations and translations all those of p
\* (as float32), whatever was stored before.
C4_SetPoseReplacesWholesale ==
  (last.op = "initialize_parameters" /\ Complete(last.args)) =>
    /\ last.outcome = "ok"
    /\ Ready
    /\ Self = PoseOf(last.args)

C4_Witness ==
  /\ last.op = "initialize_parameters"
  /\ last.args = Args(3, 1..7)
  /\ Ready
  /\ sdr[1] = <<2^F32Bits>>
  /\ rotations[1] = <<2^F32Bits + 2, 2^F32Bits + 4, 2^F32Bits + 4>>

\* C5: a forward that supplies at least one but not all of the seven scalars
\* raises and produces no image (ray generation is not called), in
\* Uninitialized and in Ready alike.
C5_PartialRenderRejected ==
  (last.op = "forward" /\ Partial(last.args)) =>
    (last.outcome = "TensorError" /\ last.xrays = NoCall)

C5_Witness ==
  /\ last.op = "forward"
  /\ Partial(last.args)
  /\ last.args[1] = None
  /\ Ready
  /\ last.outcome = "TensorError"

\* C6: in every reachable state the three stored parameters are all unset or
\* all set.
C6_PoseSetTogether == Uninitialized \/ Ready

(***************************************************************************)
(* Claims on construction (SpecCtor).                                      *)
(***************************************************************************)

\* C7: a supplied dely is the y pixel size the detector is built with; only an
\* omitted dely becomes delx.
C7_SuppliedDelyUsed ==
  detector # None =>
    /\ (ctor.dely # None => detector[4] = ctor.dely[1])
    /\ (ctor.dely = None => detector[4] = ctor.delx)

\* C8: an omitted width becomes height and an omitted dely becomes delx, so
\* (height, delx) alone gives (height, height, delx, delx); a supplied width
\* reaches the detector unchanged.
C8_ConstructionDefaults ==
  detector # None =>
    /\ detector[1] = ctor.height
    /\ detector[3] = ctor.delx
    /\ (ctor.width = None => detector[2] = ctor.height)
    /\ (ctor.width # None => detector[2] = ctor.width[1])
    /\ (ctor.dely = None => detector[4] = ctor.delx)
    /\ ((ctor.width = None /\ ctor.dely = None) =>
          detector = <<ctor.height, ctor.height, ctor.delx, ctor.delx>>)

C8_Witness ==
  /\ ctor.width = <<1>>
  /\ ctor.height = 2
  /\ ctor.dely = None
  /\ detector = <<2, 1, 2, 2>>

\* C9: a constructor call whose height, width, delx or dely is zero or
\* negative raises, so that no orchestrator exists for it.
C9_BadGeometryRejected ==
  (\/ ctor.height <= 0
   \/ ctor.delx <= 0
   \/ (ctor.width # None /\ ctor.width[1] <= 0)
   \/ (ctor.dely # None /\ ctor.dely[1] <= 0)) => detector = None

\* what does hold under the detector constructor of the specification: the
\* geometry the detector is built with is positive
C9_BuiltGeometryPositive ==
  detector # None => \A k \in 1..4 : detector[k] > 0

(***************************************************************************)
(* Claims on concurrent callers (SpecConc).                                *)
(***************************************************************************)
\* no pose at all, or the whole float32 pose of one call's tuple
PoseOfOneCall(p) ==
  \/ p = Pose(None, None, None)
  \/ \E t \in Threads :
       /\ threads[t].call # "none"
       /\ Complete(threads[t].args)
       /\ p = PoseOf(threads[t].args)

\* C10: with concurrent callers the pose a render has read, and the pose
\* stored once every call has returned, is the complete tuple of one single
\* pose-setting call, never sdr of one call with rotations or translations of
\* another.
C10_PoseSettingAtomic ==
  /\ \A t \in Threads :
       (threads[t].call = "forward" /\ threads[t].pc = "done") =>
         PoseOfOneCall(Pose(threads[t].rd[1], threads[t].rd[2], threads[t].rd[3]))
  /\ (\A t \in Threads : threads[t].pc = "done") => PoseOfOneCall(Self)

(***************************************************************************)
(* Claims on rendering (Spec).                                             *)
(***************************************************************************)

\* C11: the rays a successful render traces are those make_xrays returned in
\* that very call for the pose stored at that moment: the arguments of
\* make_xrays are the stored sdr, rotations and translations, never those of
\* an earlier, replaced pose.
C11_RaysFromStoredPose ==
  (last.op = "forward" /\ last.outcome = "image") =>
    (Ready /\ last.xrays = XrayArgs(Self))

\* a parameterless render after the pose was replaced by tuple 2
C11_Witness ==
  /\ last.op = "forward"
  /\ last.args = NoArgs
  /\ last.outcome = "image"
  /\ lastSet = Args(2, 1..7)
  /\ last.xrays = XrayArgs(PoseOf(Args(2, 1..7)))

(***************************************************************************)
(* Claims on what the calls leave alone (SpecCtor).                        *)
(***************************************************************************)

\* C12: after any sequence of initialize_parameters and forward calls,
\* successful or failing, the projector still holds the volume and spacing
\* and the detector still has the geometry that __init__ built from the
\* constructor's arguments: only the pose changes.
C12_GridAndGeometryFixed ==
  /\ detector = DRR_init(ctor)
  /\ siddon = Siddon(ctor.volume, ctor.spacing)

\* a failed forward(sdr) after which sdr is stored, on a 2 x 1 detector
C12_Witness ==
  /\ last.op = "forward"
  /\ last.outcome = "TensorError"
  /\ sdr # None
  /\ ctor.volume = "ct"
  /\ ctor.width = <<1>>
  /\ detector = <<2, 1, 2, 2>>
  /\ siddon = <<"ct", <<1, 1, 1>>>>

(***************************************************************************)
(* Claims on failing calls (Spec).                                         *)
(***************************************************************************)
Failed(l) == l.outcome \in {"TensorError", "NonePose"}

\* C14: a forward or initialize_parameters call that fails (a parameterless
\* render without a complete pose, or a call supplying only some of the seven
\* scalars) leaves sdr, rotations and translations exactly as they were
\* before the call.
C14_FailedCallLeavesPose ==
  [][(last' # last /\ Failed(last')) => Self' = Self]_vars

\* the failing calls that do leave the pose alone: those that raise on line 76
\* (no sdr supplied) and the parameterless render
C14_FailedWithoutSdrLeavesPose ==
  [][(last' # last /\ Failed(last') /\ last'.args[1] = None) => Self' = Self]_vars

(***************************************************************************)
(* Claims on zero-valued parameters (Spec).                                *)
(***************************************************************************)

\* C15: a forward with all seven scalars given, some or all of them 0,
\* replaces the stored pose by those values and renders with them; it is not
\* taken for a parameterless render.
C15_ZeroCountsAsSupplied ==
  (/\ last.op = "forward"
   /\ Complete(last.args)
   /\ \E j \in 1..7 : last.args[j] = <<0>>) =>
    /\ last.outcome = "image"
    /\ Self = PoseOf(last.args)
    /\ last.xrays = XrayArgs(PoseOf(last.args))

\* forward(0, 0, 0, 0, 0, 0, 0) has run and the stored pose is all zeros
C15_Witness ==
  /\ last.op = "forward"
  /\ last.args = Args(0, 1..7)
  /\ last.outcome = "image"
  /\ sdr = Parameter(<<0>>, FALSE)
  /\ rotations = Parameter(<<0, 0, 0>>, TRUE)
  /\ translations = Parameter(<<0, 0, 0>>, TRUE)

(***************************************************************************)
(* DRR.__repr__ (drr.py:82-87).  self.parameters() yields the registered   *)
(* parameters that are not None, in the order of registration; the text is *)
(* the list of their lines.                                                *)
(***************************************************************************)
parameters(self) ==
  SelectSeq(<<self.sdr, self.rotations, self.translations>>,
            LAMBDA p : p # None)

ParametersUninitialized == <<"Parameters uninitialized.">>

repr(self) ==
  LET params == [k \in 1..Len(parameters(self)) |-> ToString(parameters(self)[k])]
  IN IF Len(params) = 0 THEN ParametersUninitialized ELSE params

(***************************************************************************)
(* Claims on __repr__ (Spec).                                              *)
(***************************************************************************)

\* C16: in every reachable state __repr__ returns "Parameters uninitialized."
\* exactly when no pose component is stored, and exactly when a parameterless
\* forward would fail for lack of a pose.
C16_ReprUninitializedIffRenderFails ==
  /\ (repr(Self) = ParametersUninitialized) <=> Uninitialized
  /\ (repr(Self) = ParametersUninitialized) <=>
       (forward(Self, NoArgs).outcome # "image")

\* the part of C16 that holds: the text is "Parameters uninitialized." exactly
\* when no parameter is stored, and lists every stored parameter otherwise
C16_ReprUninitializedIffNoParameter ==
  /\ (repr(Self) = ParametersUninitialized) <=> Uninitialized
  /\ ~Uninitialized =>
       Len(repr(Self)) = Cardinality({k \in 1..3 : XrayArgs(Self)[k] # None})

(***************************************************************************)
(* Claims on the trainable flags (Spec).                                   *)
(***************************************************************************)
\* the number of scalars of the stored parameters that require a gradient
TrainableScalars(self) ==
  LET ps == parameters(self)
      n[k \in 0..Len(ps)] ==
        IF k = 0 THEN 0
        ELSE n[k - 1] + (IF ps[k][2] THEN Len(ps[k][1]) ELSE 0)
  IN n[Len(ps)]

====
